---------------------------- MODULE Spec2Model ----------------------------
(***************************************************************************)
(* A model of abydos' token-based distance core.                           *)
(*                                                                         *)
(*   src/abydos/distance/_millar.py               Millar.__init__, dist    *)
(*   src/tests/distance/test_distance_unknown_q.py  UnknownQ.sim, dist     *)
(*                                                                         *)
(* Strings are sequences of one-character strings, tokens are strings, a   *)
(* frequency mapping (collections.Counter) is a function from the tokens   *)
(* it holds to their counts (a token outside its domain counts 0).         *)
(*                                                                         *)
(* Floats are fixed-point integers: Millar scores in millionths of a nat   *)
(* (math.log is LnMicro), Unknown-Q scores in billionths.                  *)
(***************************************************************************)
EXTENDS Integers, Sequences, FiniteSets

VARIABLES
    self_status,      \* "unconstructed" | "ready" | "failed" (constructor raised)
    self_qval,        \* q-gram width the instance was configured with
    self_src_tokens,  \* Millar instance field self._src_tokens
    self_tar_tokens,  \* Millar instance field self._tar_tokens
    pc,               \* per thread: position inside Millar.dist
    src,              \* per thread: argument src
    tar,              \* per thread: argument tar
    src_tok,          \* per thread: local src_tok
    tar_tok,          \* per thread: local tar_tok
    score,            \* per thread: local score
    result,           \* per thread: value returned by dist (NoValue before return)
    pre,              \* per thread: the instance's mappings when dist was entered
    err,              \* per thread: the exception dist raised ("none" if none)
    uq_sim,           \* last UnknownQ.sim call of the test case: [src, tar, val]
    uq_dist,          \* last UnknownQ.dist call of the test case: [src, tar, val]
    np,               \* the Norphone.encode call: [pc, word, code]
    sb                \* the SfinxBis.encode call: [pc, word, max_length, codes]

vars == <<self_status, self_qval, self_src_tokens, self_tar_tokens, pc, src,
          tar, src_tok, tar_tok, score, result, pre, err, uq_sim, uq_dist,
          np, sb>>

selfVars == <<self_status, self_qval, self_src_tokens, self_tar_tokens>>
uqVars == <<uq_sim, uq_dist>>
millarVars == <<self_status, self_qval, self_src_tokens, self_tar_tokens, pc,
                src, tar, src_tok, tar_tok, score, result, pre, err>>
phVars == <<np, sb>>

---------------------------------------------------------------------------
(* Bounds of the model *)

\* longest input string of the bounded specifications
MaxLen == 2
\* longest word handed to Norphone.encode
NorphoneMaxLen == 3
\* largest q-gram width a constructor call asks for
MaxQ == 2
\* longest input string when two threads share the instance
MaxLenThreads == 1

Chars == {"a", "b"}
Threads == {1, 2}
MainThread == {1}

StringsUpTo(n) == UNION {[1..k -> Chars] : k \in 0..n}
Strings == StringsUpTo(MaxLen)
ThreadStrings == StringsUpTo(MaxLenThreads)
QVals == (0 - 1)..MaxQ

\* result before dist has returned
NoValue == 0 - 1

---------------------------------------------------------------------------
(* math.log in millionths of a nat *)

RECURSIVE Gcd(_, _)
Gcd(a, b) == IF b = 0 THEN a ELSE Gcd(b, a % b)

\* ln(k) * 10^6, rounded to nearest, for the integers the model divides by
LnMicro(k) ==
    CASE k = 1 -> 0
      [] k = 2 -> 693147
      [] k = 3 -> 1098612
      [] k = 4 -> 1386294
      [] k = 5 -> 1609438
      [] k = 6 -> 1791759
      [] k = 7 -> 1945910
      [] k = 8 -> 2079442
      [] k = 9 -> 2197225
      [] k = 10 -> 2302585
      [] k = 11 -> 2397895
      [] k = 12 -> 2484907
      [] k = 13 -> 2564949
      [] k = 14 -> 2639057
      [] k = 15 -> 2708050
      [] k = 16 -> 2772589

\* log(num/den): the float num/den is the same for equal ratios, so the
\* quotient is reduced before the logarithm is taken
Log(num, den) ==
    LET g == Gcd(num, den)
    IN  LnMicro(num \div g) - LnMicro(den \div g)

\* log2 = log(2), _millar.py line 97
Log2 == Log(2, 1)

\* float division of a fixed-point numerator by an integer count
FDiv(x, n) == IF x >= 0 THEN x \div n ELSE 0 - ((0 - x) \div n)

---------------------------------------------------------------------------
(* The tokenizer (_TokenDistance, not among the sources: modelled from the  *)
(* specification, sections 3 and 4.1)                                       *)

\* q-gram width of an instance constructed without a qval argument
DefaultQ == 2

\* the constructor accepts q >= 1 only
ConstructOutcomeNegativeOnly(q) == IF q < 0 THEN "failed" ELSE "ready"
ConstructOutcome(q) == IF q < 1 THEN "failed" ELSE "ready"

\* collections.Counter(): no token
EmptyCounter == [tok \in {} |-> 0]

\* the tokens of s in order: none for the empty string, the whole string when
\* it is shorter than q, its overlapping substrings of length q otherwise
QGrams(s, q) ==
    IF Len(s) = 0 THEN << >>
    ELSE IF Len(s) < q THEN << s >>
    ELSE [i \in 1..(Len(s) - q + 1) |-> SubSeq(s, i, i + q - 1)]

\* the frequency mapping of s: each observed token with its occurrence count
TokenCounts(s, q) ==
    LET toks == QGrams(s, q)
    IN  [tok \in {toks[i] : i \in DOMAIN toks} |->
            Cardinality({i \in DOMAIN toks : toks[i] = tok})]

---------------------------------------------------------------------------
(* Millar.dist, _millar.py lines 91-114 *)

\* Counter lookup c[tok]: 0 for a token the mapping does not hold
Count(c, tok) == IF tok \in DOMAIN c THEN c[tok] ELSE 0

\* line 95, with & written for |
AlphabetIntersection(s_tok, t_tok) == DOMAIN s_tok \cap DOMAIN t_tok
\* line 95: alphabet = set(src_tok.keys() | tar_tok.keys())
Alphabet(s_tok, t_tok) == DOMAIN s_tok \cup DOMAIN t_tok

\* lines 104, 108 with the division by n_k left out of the logarithm
TermLogOfCount(s_cnt, t_cnt) ==
    LET n_k == s_cnt + t_cnt
        src_val == IF s_cnt # 0 THEN s_cnt * Log(s_cnt, 1) ELSE 0
        tar_val == IF t_cnt # 0 THEN t_cnt * Log(t_cnt, 1) ELSE 0
    IN  FDiv(src_val + tar_val + n_k * Log2, n_k)
\* line 110 without tar_val
TermWithoutTarVal(s_cnt, t_cnt) ==
    LET n_k == s_cnt + t_cnt
        src_val == IF s_cnt # 0 THEN s_cnt * Log(s_cnt, n_k) ELSE 0
    IN  FDiv(src_val + n_k * Log2, n_k)
\* line 110 with n_k * log2 subtracted
TermLog2Subtracted(s_cnt, t_cnt) ==
    LET n_k == s_cnt + t_cnt
        src_val == IF s_cnt # 0 THEN s_cnt * Log(s_cnt, n_k) ELSE 0
        tar_val == IF t_cnt # 0 THEN t_cnt * Log(t_cnt, n_k) ELSE 0
    IN  FDiv(src_val + tar_val - n_k * Log2, n_k)
\* lines 100-110: what one token adds to score, from its two counts
Term(s_cnt, t_cnt) ==
    LET n_k == s_cnt + t_cnt
        src_val == IF s_cnt # 0 THEN s_cnt * Log(s_cnt, n_k) ELSE 0
        tar_val == IF t_cnt # 0 THEN t_cnt * Log(t_cnt, n_k) ELSE 0
    IN  FDiv(src_val + tar_val + n_k * Log2, n_k)

\* lines 103, 107 without the test
LogGuardAlways(cnt) == TRUE
\* lines 103, 107: if src_tok[tok]: / if tar_tok[tok]: the logarithm is taken
\* of a count's share only when the count is not 0
LogGuard(cnt) == cnt # 0

\* the exception log(cnt/n_k) raises, lines 104 and 108: the division fails
\* for n_k = 0, the logarithm for a quotient <= 0
LogError(cnt, n_k) ==
    IF ~LogGuard(cnt) THEN "none"
    ELSE IF n_k = 0 THEN "ZeroDivisionError"
    ELSE IF (cnt > 0) # (n_k > 0) \/ cnt = 0 THEN "ValueError"
    ELSE "none"

\* lines 100-110: the exception the loop body raises for one token's counts
TermError(s_cnt, t_cnt) ==
    LET n_k == s_cnt + t_cnt
    IN  IF LogError(s_cnt, n_k) # "none" THEN LogError(s_cnt, n_k)
        ELSE IF LogError(t_cnt, n_k) # "none" THEN LogError(t_cnt, n_k)
        ELSE IF n_k = 0 THEN "ZeroDivisionError"
        ELSE "none"

\* lines 99-110: the exceptions the loop can end with, one per token whose
\* body raises (the set is iterated in no fixed order); "none" when none does
LoopErrors(s_tok, t_tok) ==
    LET raised == {TermError(Count(s_tok, tok), Count(t_tok, tok)) :
                       tok \in Alphabet(s_tok, t_tok)} \ {"none"}
    IN  IF raised = {} THEN {"none"} ELSE raised

\* lines 98-110: score summed over the alphabet
RECURSIVE SumTerms(_, _, _)
SumTerms(toks, s_tok, t_tok) ==
    IF toks = {} THEN 0
    ELSE LET tok == CHOOSE x \in toks : TRUE
         IN  Term(Count(s_tok, tok), Count(t_tok, tok))
               + SumTerms(toks \ {tok}, s_tok, t_tok)

Score(s_tok, t_tok) == SumTerms(Alphabet(s_tok, t_tok), s_tok, t_tok)

\* lines 112-114 with the test inverted
ClampInverted(sc) == IF sc > 0 THEN 0 ELSE sc
\* lines 112-114: if score > 0: return score; return 0.0
Clamp(sc) == IF sc > 0 THEN sc ELSE 0

\* dist on a freshly constructed instance of width q: line 91 stores the two
\* mappings, line 93 binds tar_tok to the source mapping and line 94 src_tok
\* to the target mapping
MillarDist(q, a, b) ==
    LET fresh_src == TokenCounts(a, q)
        fresh_tar == TokenCounts(b, q)
    IN  Clamp(Score(fresh_tar, fresh_src))

\* dist without its first statement
DistEntryWithoutTokenize == "bind_tar"
\* line 91: the first statement of dist is self._tokenize(src, tar)
DistEntry == "tokenize"

---------------------------------------------------------------------------
(* The Millar instance and the threads calling dist on it *)

NoMappings == << EmptyCounter, EmptyCounter >>

\* Millar(qval=q): line 58 hands the arguments to the base constructor, which
\* raises for q < 1 and otherwise leaves an instance holding two empty mappings
Construct(q) ==
    /\ self_status = "unconstructed"
    /\ self_status' = ConstructOutcome(q)
    /\ self_qval' = q
    /\ UNCHANGED <<self_src_tokens, self_tar_tokens, pc, src, tar, src_tok,
                   tar_tok, score, result, pre, err, uq_sim, uq_dist, phVars>>

\* Millar(qval=q) for each width a caller may ask for
ConstructQ == \E q \in QVals : Construct(q)

\* Millar(): the doctest's cmp = Millar(), line 77
ConstructDefault == Construct(DefaultQ)

\* a thread enters dist(a, b)
Call(t, a, b) ==
    /\ self_status = "ready"
    /\ pc[t] = "idle"
    /\ pc' = [pc EXCEPT ![t] = DistEntry]
    /\ src' = [src EXCEPT ![t] = a]
    /\ tar' = [tar EXCEPT ![t] = b]
    /\ pre' = [pre EXCEPT ![t] = << self_src_tokens, self_tar_tokens >>]
    /\ UNCHANGED <<selfVars, src_tok, tar_tok, score, result, err, uqVars, phVars>>

\* line 91: self._tokenize(src, tar) stores both mappings on the instance
Tokenize(t) ==
    /\ pc[t] = "tokenize"
    /\ self_src_tokens' = TokenCounts(src[t], self_qval)
    /\ self_tar_tokens' = TokenCounts(tar[t], self_qval)
    /\ pc' = [pc EXCEPT ![t] = "bind_tar"]
    /\ UNCHANGED <<self_status, self_qval, src, tar, src_tok, tar_tok, score,
                   result, pre, err, uqVars, phVars>>

\* line 93: tar_tok = self._src_tokens
BindTarTok(t) ==
    /\ pc[t] = "bind_tar"
    /\ tar_tok' = [tar_tok EXCEPT ![t] = self_src_tokens]
    /\ pc' = [pc EXCEPT ![t] = "bind_src"]
    /\ UNCHANGED <<selfVars, src, tar, src_tok, score, result, pre, err,
                   uqVars, phVars>>

\* line 94: src_tok = self._tar_tokens
BindSrcTok(t) ==
    /\ pc[t] = "bind_src"
    /\ src_tok' = [src_tok EXCEPT ![t] = self_tar_tokens]
    /\ pc' = [pc EXCEPT ![t] = "sum"]
    /\ UNCHANGED <<selfVars, src, tar, tar_tok, score, result, pre, err,
                   uqVars, phVars>>

\* lines 95-110: the loop over the alphabet; an exception of its body ends
\* the call
Accumulate(t) ==
    /\ pc[t] = "sum"
    /\ \E e \in LoopErrors(src_tok[t], tar_tok[t]) :
           /\ err' = [err EXCEPT ![t] = e]
           /\ IF e = "none"
                 THEN /\ score' = [score EXCEPT ![t] = Score(src_tok[t], tar_tok[t])]
                      /\ pc' = [pc EXCEPT ![t] = "clamp"]
                 ELSE /\ score' = score
                      /\ pc' = [pc EXCEPT ![t] = "raised"]
    /\ UNCHANGED <<selfVars, src, tar, src_tok, tar_tok, result, pre, uqVars, phVars>>

\* lines 112-114: the value dist returns
ReturnValue(t) ==
    /\ pc[t] = "clamp"
    /\ result' = [result EXCEPT ![t] = Clamp(score[t])]
    /\ pc' = [pc EXCEPT ![t] = "done"]
    /\ UNCHANGED <<selfVars, src, tar, src_tok, tar_tok, score, pre, err,
                   uqVars, phVars>>

\* the caller takes the value; the locals of the call are gone
Leave(t) ==
    /\ pc[t] = "done"
    /\ pc' = [pc EXCEPT ![t] = "idle"]
    /\ src' = [src EXCEPT ![t] = << >>]
    /\ tar' = [tar EXCEPT ![t] = << >>]
    /\ src_tok' = [src_tok EXCEPT ![t] = EmptyCounter]
    /\ tar_tok' = [tar_tok EXCEPT ![t] = EmptyCounter]
    /\ score' = [score EXCEPT ![t] = 0]
    /\ result' = [result EXCEPT ![t] = NoValue]
    /\ pre' = [pre EXCEPT ![t] = NoMappings]
    /\ UNCHANGED <<selfVars, err, uqVars, phVars>>

\* the statements of dist after its entry
DistStep(t) ==
    \/ Tokenize(t)
    \/ BindTarTok(t)
    \/ BindSrcTok(t)
    \/ Accumulate(t)
    \/ ReturnValue(t)

NoUQCall == [called |-> FALSE, src |-> "", tar |-> "", val |-> 0]

\* no Norphone.encode call, no SfinxBis.encode call
NoNorphoneCall == [pc |-> "idle", word |-> << >>, code |-> << >>]
NoSfinxBisCall ==
    [pc |-> "idle", word |-> << >>, max_length |-> 0 - 1, reversed |-> FALSE,
     codes |-> << >>]

Init ==
    /\ self_status = "unconstructed"
    /\ self_qval = DefaultQ
    /\ self_src_tokens = EmptyCounter
    /\ self_tar_tokens = EmptyCounter
    /\ pc = [t \in Threads |-> "idle"]
    /\ src = [t \in Threads |-> << >>]
    /\ tar = [t \in Threads |-> << >>]
    /\ src_tok = [t \in Threads |-> EmptyCounter]
    /\ tar_tok = [t \in Threads |-> EmptyCounter]
    /\ score = [t \in Threads |-> 0]
    /\ result = [t \in Threads |-> NoValue]
    /\ pre = [t \in Threads |-> NoMappings]
    /\ err = [t \in Threads |-> "none"]
    /\ uq_sim = NoUQCall
    /\ uq_dist = NoUQCall
    /\ np = NoNorphoneCall
    /\ sb = NoSfinxBisCall

\* one caller, one call after another, any width, every bounded string
CallBounded == \E t \in MainThread : \E a \in Strings, b \in Strings : Call(t, a, b)
StepMain == \E t \in MainThread : DistStep(t) \/ Leave(t)

Next ==
    \/ ConstructQ
    \/ ConstructDefault
    \/ CallBounded
    \/ StepMain

Spec == Init /\ [][Next]_vars

\* two threads sharing the instance, each calling dist once, their statements
\* interleaved
CallThreads == \E t \in Threads : \E a \in ThreadStrings, b \in ThreadStrings : Call(t, a, b)
StepThreads == \E t \in Threads : DistStep(t)

NextThreads ==
    \/ ConstructQ
    \/ CallThreads
    \/ StepThreads

SpecThreads == Init /\ [][NextThreads]_vars

---------------------------------------------------------------------------
(* The doctest of dist, _millar.py lines 77-85: one default instance and   *)
(* the words of its four examples                                           *)

DocCat == << "c", "a", "t" >>
DocHat == << "h", "a", "t" >>
DocNiall == << "N", "i", "a", "l", "l" >>
DocNeil == << "N", "e", "i", "l" >>
DocAluminum == << "a", "l", "u", "m", "i", "n", "u", "m" >>
DocCatalan == << "C", "a", "t", "a", "l", "a", "n" >>
DocATCG == << "A", "T", "C", "G" >>
DocTAGC == << "T", "A", "G", "C" >>

DocWords == {DocCat, DocHat, DocNiall, DocNeil, DocAluminum, DocCatalan,
             DocATCG, DocTAGC}

\* the four calls of the doctest
DocPairs == {<< DocCat, DocHat >>, << DocNiall, DocNeil >>,
             << DocAluminum, DocCatalan >>, << DocATCG, DocTAGC >>}

CallDoctest == \E t \in MainThread : \E a \in DocWords, b \in DocWords : Call(t, a, b)

NextDoctest ==
    \/ ConstructDefault
    \/ CallDoctest
    \/ StepMain

SpecDoctest == Init /\ [][NextDoctest]_vars

---------------------------------------------------------------------------
(* UnknownQ as its unit tests pin it down: the class is not among the       *)
(* sources, test_distance_unknown_q.py asserts what sim and dist return.    *)
(* Values are in billionths.                                                *)

\* the float 1.0
UQOne == 10^9

\* the argument pairs of both tests, lines 47-61 and 66-80
UQPairs == {<< "", "" >>, << "a", "" >>, << "", "a" >>,
            << "abc", "" >>, << "", "abc" >>, << "abc", "abc" >>,
            << "abcd", "efgh" >>,
            << "Nigel", "Niall" >>, << "Niall", "Nigel" >>,
            << "Colin", "Coiln" >>, << "Coiln", "Colin" >>,
            << "ATCAACGAGT", "AACGATTAG" >>}

\* the asserted similarities, lines 47-61
UnknownQSimAsserted(a, b) ==
    CASE a = "" /\ b = "" -> 500000000
      [] a = "a" /\ b = "" -> 200000000
      [] a = "" /\ b = "a" -> 200000000
      [] a = "abc" /\ b = "" -> 125000000
      [] a = "" /\ b = "abc" -> 125000000
      [] a = "abc" /\ b = "abc" -> 833333333
      [] a = "abcd" /\ b = "efgh" -> 23809524
      [] a = "Nigel" /\ b = "Niall" -> 125000000
      [] a = "Niall" /\ b = "Nigel" -> 125000000
      [] a = "Colin" /\ b = "Coiln" -> 125000000
      [] a = "Coiln" /\ b = "Colin" -> 125000000
      [] a = "ATCAACGAGT" /\ b = "AACGATTAG" -> 142857143

\* sim answering an empty src with the value of two empty strings
UnknownQSimEmptySrcOnly(a, b) ==
    IF a = "" THEN 500000000 ELSE UnknownQSimAsserted(a, b)
\* test_unknown_q_sim, lines 47-61: the value of cmp.sim(a, b)
UnknownQSim(a, b) == UnknownQSimAsserted(a, b)

\* the asserted distances, lines 66-80
UnknownQDistAsserted(a, b) ==
    CASE a = "" /\ b = "" -> 500000000
      [] a = "a" /\ b = "" -> 800000000
      [] a = "" /\ b = "a" -> 800000000
      [] a = "abc" /\ b = "" -> 875000000
      [] a = "" /\ b = "abc" -> 875000000
      [] a = "abc" /\ b = "abc" -> 166666667
      [] a = "abcd" /\ b = "efgh" -> 976190476
      [] a = "Nigel" /\ b = "Niall" -> 875000000
      [] a = "Niall" /\ b = "Nigel" -> 875000000
      [] a = "Colin" /\ b = "Coiln" -> 875000000
      [] a = "Coiln" /\ b = "Colin" -> 875000000
      [] a = "ATCAACGAGT" /\ b = "AACGATTAG" -> 857142857

\* dist returning the similarity itself
UnknownQDistWithoutComplement(a, b) == UnknownQSim(a, b)
\* dist returning 0 for two equal strings
UnknownQDistZeroWhenEqual(a, b) ==
    IF a = b THEN 0 ELSE UnknownQDistAsserted(a, b)
\* test_unknown_q_dist, lines 66-80: the value of cmp.dist(a, b)
UnknownQDist(a, b) == UnknownQDistAsserted(a, b)

\* a call of cmp.sim in test_unknown_q_sim
CallSim ==
    \E p \in UQPairs :
        /\ uq_sim' = [called |-> TRUE, src |-> p[1], tar |-> p[2],
                      val |-> UnknownQSim(p[1], p[2])]
        /\ UNCHANGED <<selfVars, pc, src, tar, src_tok, tar_tok, score,
                       result, pre, err, uq_dist, phVars>>

\* a call of cmp.dist in test_unknown_q_dist
CallDist ==
    \E p \in UQPairs :
        /\ uq_dist' = [called |-> TRUE, src |-> p[1], tar |-> p[2],
                       val |-> UnknownQDist(p[1], p[2])]
        /\ UNCHANGED <<selfVars, pc, src, tar, src_tok, tar_tok, score,
                       result, pre, err, uq_sim, phVars>>

NextUQ ==
    \/ CallSim
    \/ CallDist

SpecUQ == Init /\ [][NextUQ]_vars

---------------------------------------------------------------------------
(* Norphone.encode, _sv.py lines 381-496.  A character is a one-character   *)
(* string; the letters outside ASCII are written by name ("Aring" is the A  *)
(* with ring, "AElig" the AE ligature, "Oslash" the slashed O).             *)

\* line 392: _uc_v_set
NorphoneVowels == {"A", "E", "I", "O", "U", "Y", "Aring", "AElig", "Oslash", "Auml", "Ouml"}

\* lines 394-417: _replacements, the keys of one length
NorphoneKeys(length) ==
    CASE length = 4 -> {<< "S", "K", "E", "I" >>}
      [] length = 3 -> {<< "S", "K", "J" >>, << "K", "E", "I" >>}
      [] length = 2 -> {<< "C", "H" >>, << "C", "K" >>, << "G", "J" >>, << "G", "H" >>,
                     << "H", "G" >>, << "H", "J" >>, << "H", "L" >>, << "H", "R" >>,
                     << "K", "J" >>, << "K", "I" >>, << "L", "D" >>, << "N", "D" >>,
                     << "P", "H" >>, << "T", "H" >>, << "S", "J" >>}
      [] length = 1 -> {<< "W" >>, << "X" >>, << "Z" >>, << "D" >>, << "G" >>}

\* lines 394-417: _replacements, the code of a key
NorphoneReplacement(key) ==
    CASE key = << "S", "K", "E", "I" >> -> << "X" >>
      [] key = << "S", "K", "J" >> -> << "X" >>
      [] key = << "K", "E", "I" >> -> << "X" >>
      [] key = << "C", "H" >> -> << "K" >>
      [] key = << "C", "K" >> -> << "K" >>
      [] key = << "G", "J" >> -> << "J" >>
      [] key = << "G", "H" >> -> << "K" >>
      [] key = << "H", "G" >> -> << "K" >>
      [] key = << "H", "J" >> -> << "J" >>
      [] key = << "H", "L" >> -> << "L" >>
      [] key = << "H", "R" >> -> << "R" >>
      [] key = << "K", "J" >> -> << "X" >>
      [] key = << "K", "I" >> -> << "X" >>
      [] key = << "L", "D" >> -> << "L" >>
      [] key = << "N", "D" >> -> << "N" >>
      [] key = << "P", "H" >> -> << "F" >>
      [] key = << "T", "H" >> -> << "T" >>
      [] key = << "S", "J" >> -> << "X" >>
      [] key = << "W" >> -> << "V" >>
      [] key = << "X" >> -> << "K", "S" >>
      [] key = << "Z" >> -> << "S" >>
      [] key = << "D" >> -> << "T" >>
      [] key = << "G" >> -> << "K" >>

\* str.upper for the characters the model feeds in
UpperChar(c) ==
    CASE c = "a" -> "A"
      [] c = "d" -> "D"
      [] c = "i" -> "I"
      [] c = "k" -> "K"
      [] c = "w" -> "W"
      [] c = "aring" -> "Aring"
      [] c = "auml" -> "Auml"
      [] c = "ouml" -> "Ouml"
      [] OTHER -> c

\* word.upper()
Upper(word) == [i \in 1..Len(word) |-> UpperChar(word[i])]

\* the slice word[from:from+length], 0-based from, cut at the end of word
Slice(word, from, length) ==
    SubSeq(word, from + 1, IF from + length > Len(word) THEN Len(word) ELSE from + length)

\* the slice word[-n:], the whole word when it is shorter than n
LastChars(word, n) ==
    IF Len(word) <= n THEN word ELSE SubSeq(word, Len(word) - n + 1, Len(word))

\* the slice word[:-n], empty when the word is not longer than n
DropLast(word, n) ==
    IF Len(word) <= n THEN << >> ELSE SubSeq(word, 1, Len(word) - n)

\* Phonetic._delete_consecutive_repeats: each run of one character becomes a
\* single character
RECURSIVE DeleteConsecutiveRepeats(_)
DeleteConsecutiveRepeats(word) ==
    IF Len(word) <= 1 THEN word
    ELSE IF word[1] = word[2] THEN DeleteConsecutiveRepeats(Tail(word))
    ELSE << word[1] >> \o DeleteConsecutiveRepeats(Tail(word))

\* lines 441-464: the code and the skip count the start of the word gives
NorphoneStart(word) ==
    IF Slice(word, 0, 2) = << "A", "A" >> THEN [code |-> << "Aring" >>, skip |-> 2]
    ELSE IF Slice(word, 0, 2) = << "G", "I" >> THEN [code |-> << "J" >>, skip |-> 2]
    ELSE IF Slice(word, 0, 3) = << "S", "K", "Y" >> THEN [code |-> << "X" >>, skip |-> 3]
    ELSE IF Slice(word, 0, 2) = << "E", "I" >> THEN [code |-> << "AElig" >>, skip |-> 2]
    ELSE IF Slice(word, 0, 2) = << "K", "Y" >> THEN [code |-> << "X" >>, skip |-> 2]
    ELSE IF Slice(word, 0, 1) = << "C" >> THEN [code |-> << "K" >>, skip |-> 1]
    ELSE IF Slice(word, 0, 1) = << "Auml" >> THEN [code |-> << "AElig" >>, skip |-> 1]
    ELSE IF Slice(word, 0, 1) = << "Ouml" >> THEN [code |-> << "Oslash" >>, skip |-> 1]
    ELSE [code |-> << >>, skip |-> 0]

\* lines 471-477: a final DT becomes T; a final vowel + D is cut off
\* (word[:-2] drops the vowel along with the D)
NorphoneFinal(word) ==
    IF LastChars(word, 2) = << "D", "T" >> THEN DropLast(word, 2) \o << "T" >>
    ELSE IF /\ Len(word) >= 2
            /\ word[Len(word) - 1] \in NorphoneVowels
            /\ word[Len(word)] = "D"
         THEN DropLast(word, 2)
    ELSE word

\* line 483: the lengths, longest first, whose replacement table holds the
\* slice of that length at pos
NorphoneMatches(word, pos) ==
    {length \in 1..4 : Slice(word, pos, length) \in NorphoneKeys(length)}

\* lines 479-492: the loop over the characters of word from pos (0-based)
RECURSIVE NorphoneLoop(_, _, _, _)
NorphoneLoop(word, pos, skip, code) ==
    IF pos >= Len(word) THEN code
    ELSE IF skip > 0 THEN NorphoneLoop(word, pos + 1, skip - 1, code)
    ELSE LET found == NorphoneMatches(word, pos)
         IN  IF found # {}
               THEN LET length == CHOOSE l \in found : \A k \in found : k <= l
                    IN  NorphoneLoop(word, pos + 1, length - 1,
                            code \o NorphoneReplacement(Slice(word, pos, length)))
               ELSE IF pos = 0 \/ word[pos + 1] \notin NorphoneVowels
                      THEN NorphoneLoop(word, pos + 1, 0, code \o << word[pos + 1] >>)
                      ELSE NorphoneLoop(word, pos + 1, 0, code)

\* lines 436-496: Norphone.encode
NorphoneEncode(w) ==
    LET word == Upper(w)
        start == NorphoneStart(word)
        cut == NorphoneFinal(word)
    IN  DeleteConsecutiveRepeats(NorphoneLoop(cut, 0, start.skip, start.code))

\* the words handed to Norphone.encode
NorphoneChars == {"A", "E", "I", "K", "S", "D", "T", "d"}
NorphoneWords == UNION {[1..k -> NorphoneChars] : k \in 0..NorphoneMaxLen}

\* a caller enters encode(word)
NorphoneCall ==
    /\ np.pc = "idle"
    /\ \E w \in NorphoneWords :
           np' = [pc |-> "called", word |-> w, code |-> << >>]
    /\ UNCHANGED <<millarVars, uqVars, sb>>

\* lines 436-496: encode runs and returns the code
NorphoneReturn ==
    /\ np.pc = "called"
    /\ np' = [np EXCEPT !.pc = "done", !.code = NorphoneEncode(np.word)]
    /\ UNCHANGED <<millarVars, uqVars, sb>>

\* the caller takes the code
NorphoneLeave ==
    /\ np.pc = "done"
    /\ np' = NoNorphoneCall
    /\ UNCHANGED <<millarVars, uqVars, sb>>

NextNorphone ==
    \/ NorphoneCall
    \/ NorphoneReturn
    \/ NorphoneLeave

SpecNorphone == Init /\ [][NextNorphone]_vars

---------------------------------------------------------------------------
(* SfinxBis.encode, _sv.py lines 38-348.  Accented capitals are written by  *)
(* name ("Eacute"), "ring" and "uml" are the combining ring and diaeresis.  *)

\* lines 55-86: _adelstitler, in the order of the tuple
SfinxAdelstitler ==
  << << " ", "D", "E", " ", "L", "A", " " >>,
     << " ", "D", "E", " ", "L", "A", "S", " " >>,
     << " ", "D", "E", " ", "L", "O", "S", " " >>,
     << " ", "V", "A", "N", " ", "D", "E", " " >>,
     << " ", "V", "A", "N", " ", "D", "E", "N", " " >>,
     << " ", "V", "A", "N", " ", "D", "E", "R", " " >>,
     << " ", "V", "O", "N", " ", "D", "E", "M", " " >>,
     << " ", "V", "O", "N", " ", "D", "E", "R", " " >>,
     << " ", "A", "F", " " >>,
     << " ", "A", "V", " " >>,
     << " ", "D", "A", " " >>,
     << " ", "D", "E", " " >>,
     << " ", "D", "E", "L", " " >>,
     << " ", "D", "E", "N", " " >>,
     << " ", "D", "E", "S", " " >>,
     << " ", "D", "I", " " >>,
     << " ", "D", "O", " " >>,
     << " ", "D", "O", "N", " " >>,
     << " ", "D", "O", "S", " " >>,
     << " ", "D", "U", " " >>,
     << " ", "E", " " >>,
     << " ", "I", "N", " " >>,
     << " ", "L", "A", " " >>,
     << " ", "L", "E", " " >>,
     << " ", "M", "A", "C", " " >>,
     << " ", "M", "C", " " >>,
     << " ", "V", "A", "N", " " >>,
     << " ", "V", "O", "N", " " >>,
     << " ", "Y", " " >>,
     << " ", "S", ":", "T", " " >> >>

\* lines 88-89: _harde_vokaler, _mjuka_vokaler, in one order of iteration
SfinxHardeVokaler == << "A", "O", "U", "Aring" >>
SfinxMjukaVokaler == << "E", "I", "Y", "Auml", "Ouml" >>
\* lines 90-111: _uc_c_set, in one order of iteration
SfinxUcCSet ==
  << "B", "C", "D", "F", "G", "H", "J", "K", "L", "M", "N", "P", "Q", "R",
     "S", "T", "V", "W", "X", "Z" >>
\* lines 112-142: _uc_set
SfinxUcSet ==
  {"A", "B", "C", "D", "E", "F", "G", "H", "I", "J", "K", "L", "M", "N", "O",
   "P", "Q", "R", "S", "T", "U", "V", "W", "X", "Y", "Z", "Auml", "Aring",
   "Ouml"}

\* the elements of a sequence
Range(s) == {s[i] : i \in DOMAIN s}

\* a set is iterated in an order the program does not fix: the order written
\* above, or that order reversed
Reverse(s) == [i \in 1..Len(s) |-> s[Len(s) + 1 - i]]
Ordered(s, reversed) == IF reversed THEN Reverse(s) ELSE s

\* lines 144-149: _trans, applied by str.translate to one character
SfinxTransChar(c) ==
    CASE c = "B" -> "1"
      [] c = "C" -> "2"
      [] c = "D" -> "3"
      [] c = "F" -> "7"
      [] c = "G" -> "2"
      [] c = "H" -> "9"
      [] c = "J" -> "2"
      [] c = "K" -> "2"
      [] c = "L" -> "4"
      [] c = "M" -> "5"
      [] c = "N" -> "5"
      [] c = "P" -> "1"
      [] c = "Q" -> "2"
      [] c = "R" -> "6"
      [] c = "S" -> "8"
      [] c = "T" -> "3"
      [] c = "V" -> "7"
      [] c = "Z" -> "8"
      [] c = "A" -> "9"
      [] c = "O" -> "9"
      [] c = "U" -> "9"
      [] c = "Aring" -> "9"
      [] c = "E" -> "9"
      [] c = "I" -> "9"
      [] c = "Y" -> "9"
      [] c = "Auml" -> "9"
      [] c = "Ouml" -> "9"
      [] OTHER -> c

\* lines 151-156: _substitutions, applied by str.translate to one character
SfinxSubstitutionChar(c) ==
    CASE c = "W" -> "V"
      [] c = "Z" -> "S"
      [] c = "Agrave" -> "A"
      [] c = "Aacute" -> "A"
      [] c = "Acirc" -> "A"
      [] c = "Atilde" -> "A"
      [] c = "AElig" -> "Auml"
      [] c = "Ccedil" -> "C"
      [] c = "Egrave" -> "E"
      [] c = "Eacute" -> "E"
      [] c = "Ecirc" -> "E"
      [] c = "Euml" -> "E"
      [] c = "Igrave" -> "I"
      [] c = "Iacute" -> "I"
      [] c = "Icirc" -> "I"
      [] c = "Iuml" -> "I"
      [] c = "Ntilde" -> "N"
      [] c = "Ograve" -> "O"
      [] c = "Oacute" -> "O"
      [] c = "Ocirc" -> "O"
      [] c = "Otilde" -> "O"
      [] c = "Oslash" -> "Ouml"
      [] c = "Ugrave" -> "U"
      [] c = "Uacute" -> "U"
      [] c = "Ucirc" -> "U"
      [] c = "Uuml" -> "Y"
      [] c = "Yacute" -> "Y"
      [] OTHER -> c

\* s.startswith(prefix)
StartsWith(s, prefix) ==
    Len(prefix) <= Len(s) /\ SubSeq(s, 1, Len(prefix)) = prefix

\* old in s
RECURSIVE Contains(_, _)
Contains(s, old) ==
    IF Len(s) < Len(old) THEN FALSE
    ELSE StartsWith(s, old) \/ Contains(Tail(s), old)

\* s.replace(old, new): every occurrence of old, found from the left and not
\* overlapping, becomes new
RECURSIVE Replace(_, _, _)
Replace(s, old, new) ==
    IF Len(s) < Len(old) THEN s
    ELSE IF StartsWith(s, old)
           THEN new \o Replace(SubSeq(s, Len(old) + 1, Len(s)), old, new)
           ELSE << s[1] >> \o Replace(Tail(s), old, new)

\* s.replace(old, new) for each << old, new >> of pairs in turn; in the
\* empty string there is nothing to replace
RECURSIVE ReplaceEach(_, _)
ReplaceEach(s, pairs) ==
    IF pairs = << >> \/ s = << >> THEN s
    ELSE ReplaceEach(Replace(s, pairs[1][1], pairs[1][2]), Tail(pairs))

\* the characters of s that are in keep, in order
RECURSIVE Filter(_, _)
Filter(s, keep) ==
    IF s = << >> THEN << >>
    ELSE (IF s[1] \in keep THEN << s[1] >> ELSE << >>) \o Filter(Tail(s), keep)

\* word.split(): the maximal runs of characters other than the blank
RECURSIVE SplitFrom(_, _)
SplitFrom(s, current) ==
    IF s = << >> THEN (IF current = << >> THEN << >> ELSE << current >>)
    ELSE IF s[1] = " "
           THEN (IF current = << >> THEN << >> ELSE << current >>)
                    \o SplitFrom(Tail(s), << >>)
           ELSE SplitFrom(Tail(s), Append(current, s[1]))
Split(s) == SplitFrom(s, << >>)

\* unicodedata.normalize('NFC', ...): a letter and the combining mark after
\* it become the one composed letter, where there is one
RECURSIVE Normalize(_)
Normalize(s) ==
    IF Len(s) < 2 THEN s
    ELSE IF s[1] = "A" /\ s[2] = "ring" THEN << "Aring" >> \o Normalize(SubSeq(s, 3, Len(s)))
    ELSE IF s[1] = "A" /\ s[2] = "uml" THEN << "Auml" >> \o Normalize(SubSeq(s, 3, Len(s)))
    ELSE IF s[1] = "O" /\ s[2] = "uml" THEN << "Ouml" >> \o Normalize(SubSeq(s, 3, Len(s)))
    ELSE IF s[1] = "E" /\ s[2] = "uml" THEN << "Euml" >> \o Normalize(SubSeq(s, 3, Len(s)))
    ELSE << s[1] >> \o Normalize(Tail(s))

\* lines 205-208 and 209-212: vowel + (U umlaut, Y, I) becomes vowel + J, for
\* each vowel in turn
SfinxVowelPairs(vowels) ==
    [k \in 1..(3 * Len(vowels)) |->
        LET i == vowels[((k - 1) \div 3) + 1]
            second == << "Uuml", "Y", "I" >>[((k - 1) % 3) + 1]
        IN  << << i, second >>, << i, "J" >> >>]

\* lines 215-216: 'H' + consonant becomes the consonant, for each consonant in turn
SfinxHPairs(consonants) ==
    [k \in 1..Len(consonants) |-> << << "H", consonants[k] >>, << consonants[k] >> >>]

\* lines 187-224: _foersvensker
SfinxFoersvensker(lokal_ordet, reversed) ==
    LET a == ReplaceEach(lokal_ordet,
                 << << << "S", "T", "I", "E", "R", "N" >>,
                       << "S", "T", "J", "Auml", "R", "N" >> >>,
                    << << "H", "I", "E" >>, << "H", "J" >> >>,
                    << << "S", "I", "Ouml" >>, << "S", "J", "Ouml" >> >>,
                    << << "S", "C", "H" >>, << "S", "H" >> >>,
                    << << "Q", "U" >>, << "K", "V" >> >>,
                    << << "I", "O" >>, << "J", "O" >> >>,
                    << << "P", "H" >>, << "F" >> >> >>)
        b == ReplaceEach(a, SfinxVowelPairs(Ordered(SfinxHardeVokaler, reversed)))
        c == ReplaceEach(b, SfinxVowelPairs(Ordered(SfinxMjukaVokaler, reversed)))
        d == IF "H" \in Range(c)
               THEN ReplaceEach(c, SfinxHPairs(Ordered(SfinxUcCSet, reversed)))
               ELSE c
        e == [i \in 1..Len(d) |-> SfinxSubstitutionChar(d[i])]
    IN  ReplaceEach(e, << << << "ETH" >>, << "E", "T", "H" >> >>,
                          << << "THORN" >>, << "T", "H" >> >>,
                          << << "szlig" >>, << "S", "S" >> >> >>)

\* lines 226-284: _koda_foersta_ljudet
SfinxKodaFoerstaLjudet(lokal_ordet) ==
    LET w == lokal_ordet
        mjuka == Range(SfinxMjukaVokaler)
        harde == Range(SfinxHardeVokaler)
        first == Slice(w, 0, 1)
        two == Slice(w, 0, 2)
        three == Slice(w, 0, 3)
        second == Slice(w, 1, 1)
        third == Slice(w, 2, 1)
        In(x, set) == x # << >> /\ x[1] \in set
        from(n) == SubSeq(w, n + 1, Len(w))
    IN  IF In(first, mjuka) \/ In(first, harde) THEN << "$" >> \o from(1)
        ELSE IF two \in {<< "D", "J" >>, << "G", "J" >>, << "H", "J" >>, << "L", "J" >>}
          THEN << "J" >> \o from(2)
        ELSE IF first = << "G" >> /\ In(second, mjuka) THEN << "J" >> \o from(1)
        ELSE IF first = << "Q" >> THEN << "K" >> \o from(1)
        ELSE IF two = << "C", "H" >> /\ In(third, mjuka \cup harde)
          THEN << "#" >> \o from(2)
        ELSE IF first = << "C" >> /\ In(second, harde) THEN << "K" >> \o from(1)
        ELSE IF first = << "C" >> /\ In(second, Range(SfinxUcCSet))
          THEN << "K" >> \o from(1)
        ELSE IF first = << "X" >> THEN << "S" >> \o from(1)
        ELSE IF first = << "C" >> /\ In(second, mjuka) THEN << "S" >> \o from(1)
        ELSE IF three \in {<< "S", "K", "J" >>, << "S", "T", "J" >>, << "S", "C", "H" >>}
          THEN << "#" >> \o from(3)
        ELSE IF two \in {<< "S", "H" >>, << "K", "J" >>, << "T", "J" >>, << "S", "J" >>}
          THEN << "#" >> \o from(2)
        ELSE IF two = << "S", "K" >> /\ In(third, mjuka) THEN << "#" >> \o from(2)
        ELSE IF first = << "K" >> /\ In(second, mjuka) THEN << "#" >> \o from(1)
        ELSE w

\* lines 292-297: Steg 2, for the titles from index k on: each occurrence of
\* the title becomes a blank until none is left, then the title without its
\* leading blank is cut from the start of the word; the empty word holds no
\* title
RECURSIVE SfinxWithoutTitle(_, _)
SfinxWithoutTitle(word, adelstitel) ==
    IF Contains(word, adelstitel)
      THEN SfinxWithoutTitle(Replace(word, adelstitel, << " " >>), adelstitel)
      ELSE word

RECURSIVE SfinxTaBortAdelsprefix(_, _)
SfinxTaBortAdelsprefix(word, k) ==
    IF k > Len(SfinxAdelstitler) \/ word = << >> THEN word
    ELSE LET adelstitel == SfinxAdelstitler[k]
             cleared == SfinxWithoutTitle(word, adelstitel)
             cut == IF StartsWith(cleared, Tail(adelstitel))
                      THEN SubSeq(cleared, Len(adelstitel), Len(cleared))
                      ELSE cleared
         IN  SfinxTaBortAdelsprefix(cut, k + 1)

\* lines 313-316: Steg 5, only the characters of _uc_set are kept
SfinxOnlyLetters(ordet) == Filter(ordet, SfinxUcSet)

\* line 337 without the replacement
SfinxKeepNines(ordet) == ordet
\* line 337: Steg 11, every '9' is taken out
SfinxRemoveNines(ordet) == Filter(ordet, Range(ordet) \ {"9"})

\* lines 325-337: Steg 8 to 11 for the rest of one word
SfinxKodaResten(ordet, reversed) ==
    LET a == Replace(ordet, << "D", "T" >>, << "T" >>)
        b == Replace(a, << "X" >>, << "K", "S" >>)
        mjuka == Ordered(SfinxMjukaVokaler, reversed)
        c == ReplaceEach(b, [k \in 1..Len(mjuka) |->
                                 << << "C", mjuka[k] >>, << "8", mjuka[k] >> >>])
        d == [i \in 1..Len(c) |-> SfinxTransChar(c[i])]
    IN  SfinxRemoveNines(DeleteConsecutiveRepeats(d))

\* lines 310-346: Steg 4 to 12 and the truncation, for one word of the list
SfinxKodaOrdet(ordet, max_length, reversed) ==
    LET letters == SfinxOnlyLetters(SfinxFoersvensker(ordet, reversed))
        coded == SfinxKodaFoerstaLjudet(letters)
        whole == Slice(coded, 0, 1) \o SfinxKodaResten(Slice(coded, 1, Len(coded)), reversed)
    IN  IF max_length > 0 THEN Slice(whole, 0, max_length) ELSE whole

\* lines 287-348: SfinxBis.encode, with the sets iterated in the order
\* written above or in the reverse order
SfinxEncode(w, max_length, reversed) ==
    LET upper == Normalize(Upper(w))
        plain == Replace(Replace(upper, << "szlig" >>, << "S", "S" >>),
                         << "-" >>, << " " >>)
        ordlista == Split(SfinxTaBortAdelsprefix(plain, 1))
        deduped == [i \in 1..Len(ordlista) |-> DeleteConsecutiveRepeats(ordlista[i])]
    IN  IF deduped = << >> THEN << << >> >>
        ELSE [i \in 1..Len(deduped) |-> SfinxKodaOrdet(deduped[i], max_length, reversed)]


\* the longest word passed to SfinxBis.encode, and the largest max_length
SfinxBisMaxLen == 3
SfinxBisMaxCode == 2

\* the characters of the words: vowels, consonants with rules of their own,
\* a lower-case letter, a digit, the blank and the combining ring
SfinxBisChars == {"A", "E", "C", "H", "X", "w", "9", " ", "ring"}
SfinxBisWords == UNION {[1..n -> SfinxBisChars] : n \in 0..SfinxBisMaxLen}
SfinxBisMaxLengths == (0 - 1)..SfinxBisMaxCode

\* line 158: encode(word, max_length) is called
SfinxBisCall ==
    /\ sb.pc = "idle"
    /\ \E w \in SfinxBisWords, m \in SfinxBisMaxLengths, r \in BOOLEAN :
           sb' = [pc |-> "called", word |-> w, max_length |-> m,
                  reversed |-> r, codes |-> << >>]
    /\ UNCHANGED <<millarVars, uqVars, np>>

\* lines 287-348: encode runs and returns the tuple of codes
SfinxBisReturn ==
    /\ sb.pc = "called"
    /\ sb' = [sb EXCEPT !.pc = "done",
                        !.codes = SfinxEncode(sb.word, sb.max_length, sb.reversed)]
    /\ UNCHANGED <<millarVars, uqVars, np>>

\* the caller takes the tuple
SfinxBisLeave ==
    /\ sb.pc = "done"
    /\ sb' = NoSfinxBisCall
    /\ UNCHANGED <<millarVars, uqVars, np>>

NextSfinxBis ==
    \/ SfinxBisCall
    \/ SfinxBisReturn
    \/ SfinxBisLeave

SpecSfinxBis == Init /\ [][NextSfinxBis]_vars


---------------------------------------------------------------------------
(* Claims *)

\* C1: dist(s, s) returns 0.0 for every string s, the empty string included,
\* under every valid width.
Millar_Identity ==
    \A t \in Threads :
        (pc[t] = "done" /\ src[t] = tar[t]) => result[t] = 0

Millar_Identity_Witness ==
    \E t \in Threads :
        /\ pc[t] = "done"
        /\ src[t] = tar[t]
        /\ Len(src[t]) >= 2
        /\ result[t] = 0

\* C2: dist(a, b) equals dist(b, a): the value a call returns is the value of
\* dist with its two arguments exchanged.
Millar_Symmetric ==
    \A t \in Threads :
        pc[t] = "done" => result[t] = MillarDist(self_qval, tar[t], src[t])

Millar_Symmetric_Witness ==
    \E t \in Threads :
        /\ pc[t] = "done"
        /\ Len(src[t]) # Len(tar[t])
        /\ \E tok \in DOMAIN src_tok[t] \cap DOMAIN tar_tok[t] :
               src_tok[t][tok] # tar_tok[t][tok]
        /\ result[t] > 0
        /\ result[t] = MillarDist(self_qval, tar[t], src[t])

\* C3: dist(a, b) >= 0: dist returns the accumulated sum when the sum is > 0
\* and 0.0 when the sum is <= 0.
Millar_NonNegative ==
    \A t \in Threads :
        pc[t] = "done" =>
            /\ result[t] >= 0
            /\ score[t] > 0 => result[t] = score[t]
            /\ score[t] <= 0 => result[t] = 0

Millar_NonNegative_Witness ==
    \E t \in Threads :
        /\ pc[t] = "done"
        /\ score[t] > 0
        /\ result[t] = score[t]

Millar_Stateless ==
    \A t \in MainThread :
        pc[t] = "done" => result[t] = MillarDist(self_qval, src[t], tar[t])

Millar_Stateless_Witness ==
    \E t \in MainThread :
        /\ pc[t] = "done"
        /\ pre[t] # NoMappings
        /\ pre[t] # << self_src_tokens, self_tar_tokens >>
        /\ result[t] > 0
        /\ result[t] = MillarDist(self_qval, src[t], tar[t])

\* C7: when two threads call dist on one shared instance, each call returns
\* the value it returns when run alone.
Millar_ThreadSafe ==
    \A t \in Threads :
        pc[t] = "done" =>
            Clamp(Score(TokenCounts(tar[t], self_qval),
                        TokenCounts(src[t], self_qval))) = result[t]

\* C8: a dist call leaves the instance as it was: once the call has returned,
\* the instance's two mappings are what they were when the call was entered.
Millar_InstanceUnchanged ==
    \A t \in MainThread :
        pc[t] = "done" => << self_src_tokens, self_tar_tokens >> = pre[t]

\* C9: construction with q < 1 fails with the configuration error, and on a
\* constructed instance no statement of dist runs with a width below 1.
Millar_ConfigChecked ==
    /\ self_status = "failed" => self_qval < 1
    /\ self_status = "ready" => self_qval >= 1
    /\ \A t \in Threads :
           pc[t] # "idle" => (self_status = "ready" /\ self_qval >= 1)

Millar_ConfigChecked_Witness ==
    /\ self_status = "failed"
    /\ self_qval = 0

\* C10: Unknown-Q dist(a, b) equals 1 - sim(a, b), and sim(a, b) and
\* dist(a, b) both lie in [0, 1].
UnknownQ_Complement ==
    /\ uq_sim.called => (0 <= uq_sim.val /\ uq_sim.val <= UQOne)
    /\ uq_dist.called => (0 <= uq_dist.val /\ uq_dist.val <= UQOne)
    /\ ( /\ uq_sim.called
         /\ uq_dist.called
         /\ uq_sim.src = uq_dist.src
         /\ uq_sim.tar = uq_dist.tar )
       => uq_dist.val = UQOne - uq_sim.val

UnknownQ_Complement_Witness ==
    /\ uq_sim.called
    /\ uq_dist.called
    /\ uq_sim.src = "abc" /\ uq_sim.tar = "abc"
    /\ uq_dist.src = "abc" /\ uq_dist.tar = "abc"
    /\ uq_dist.val = UQOne - uq_sim.val

\* C11: Unknown-Q sim(a, b) equals sim(b, a) and dist(a, b) equals
\* dist(b, a), also when one of the two strings is empty.
UnknownQ_Symmetric ==
    /\ (uq_sim.called /\ << uq_sim.tar, uq_sim.src >> \in UQPairs)
       => uq_sim.val = UnknownQSim(uq_sim.tar, uq_sim.src)
    /\ (uq_dist.called /\ << uq_dist.tar, uq_dist.src >> \in UQPairs)
       => uq_dist.val = UnknownQDist(uq_dist.tar, uq_dist.src)

UnknownQ_Symmetric_Witness ==
    /\ uq_sim.called /\ uq_sim.src = "" /\ uq_sim.tar = "abc"
    /\ uq_sim.val = UnknownQSim("abc", "")
    /\ uq_dist.called /\ uq_dist.src = "Nigel" /\ uq_dist.tar = "Niall"
    /\ uq_dist.val = UnknownQDist("Niall", "Nigel")

\* C12 as stated: Unknown-Q dist(s, s) = 0 for every string s, dist('', '')
\* included.
UnknownQ_IdentityZero ==
    (uq_dist.called /\ uq_dist.src = uq_dist.tar) => uq_dist.val = 0

\* C12 as amended: Unknown-Q dist(s, s) is 1 - sim(s, s) and is not 0:
\* dist('', '') = 0.5 and dist('abc', 'abc') = 0.16666666666666663.
UnknownQ_IdentityNotZero ==
    (uq_dist.called /\ uq_dist.src = uq_dist.tar) =>
        /\ uq_dist.val > 0
        /\ uq_dist.val = UQOne - UnknownQSim(uq_dist.src, uq_dist.tar)
        /\ uq_dist.src = "" => uq_dist.val = 500000000
        /\ uq_dist.src = "abc" => uq_dist.val = 166666667

UnknownQ_IdentityNotZero_Witness ==
    /\ uq_dist.called
    /\ uq_dist.src = ""
    /\ uq_dist.tar = ""
    /\ uq_dist.val = 500000000

\* C13: dist raises no error: every token iterated from the alphabet has
\* n_k >= 1, a logarithm is taken only of a share in (0, 1], and two empty
\* strings give an empty alphabet and the result 0.0.
Millar_NoError ==
    \A t \in MainThread :
        /\ err[t] = "none"
        /\ pc[t] # "raised"
        /\ pc[t] \in {"sum", "clamp", "done"} =>
               \A tok \in Alphabet(src_tok[t], tar_tok[t]) :
                   LET s_cnt == Count(src_tok[t], tok)
                       t_cnt == Count(tar_tok[t], tok)
                   IN  /\ s_cnt + t_cnt >= 1
                       /\ LogGuard(s_cnt) => (0 < s_cnt /\ s_cnt <= s_cnt + t_cnt)
                       /\ LogGuard(t_cnt) => (0 < t_cnt /\ t_cnt <= s_cnt + t_cnt)
        /\ (pc[t] = "done" /\ src[t] = << >> /\ tar[t] = << >>) =>
               (Alphabet(src_tok[t], tar_tok[t]) = {} /\ result[t] = 0)

Millar_NoError_Witness ==
    \E t \in MainThread :
        /\ pc[t] = "done"
        /\ err[t] = "none"
        /\ \E tok \in Alphabet(src_tok[t], tar_tok[t]) : Count(src_tok[t], tok) = 0
        /\ \E tok \in Alphabet(src_tok[t], tar_tok[t]) :
               Count(src_tok[t], tok) > 0 /\ Count(tar_tok[t], tok) > 0

Norphone_FinalDSilent ==
    ( /\ np.pc = "done"
      /\ Len(np.word) >= 2
      /\ np.word[Len(np.word)] = "D"
      /\ np.word[Len(np.word) - 1] \in NorphoneVowels )
    => np.code = NorphoneEncode(DropLast(np.word, 1))

\* a code is empty, or one letter, '$' or '#' followed by digits 1 to 8 only
SfinxValidCode(code) ==
    \/ code = << >>
    \/ /\ code[1] \in SfinxUcSet \cup {"$", "#"}
       /\ \A j \in 2..Len(code) : code[j] \in {"1", "2", "3", "4", "5", "6", "7", "8"}

\* C16: every code SfinxBis.encode returns is empty or is one leading
\* character -- a letter, '$' or '#' -- followed only by the digits 1 to 8,
\* for every word and every max_length
SfinxBis_CodeShape ==
    sb.pc = "done" => \A i \in DOMAIN sb.codes : SfinxValidCode(sb.codes[i])

\* a word holding a digit or an 'H' was encoded to a code of a leading
\* character and at least one digit
SfinxBis_CodeShape_Witness ==
    /\ sb.pc = "done"
    /\ Range(sb.word) \cap {"9", "H"} # {}
    /\ \E i \in DOMAIN sb.codes : Len(sb.codes[i]) >= 2

=============================================================================
